---- MODULE Spec2Model ----
(***************************************************************************)
(* Model of the session / streaming layer of shai-http:                    *)
(*   - AgentSession::handle_request        (session/session.rs)            *)
(*   - sse_stream_internal, session_to_sse_stream, is_terminal_event       *)
(*                                          (streaming.rs)                 *)
(*   - DisconnectionHandler (poll_next, Drop)            (lib.rs)          *)
(*   - ChatCompletionFormatter::format_event (completion/formatter.rs)     *)
(*   - handle_chat_completion, the non-streaming loop (completion/handler) *)
(* RequestLifecycle (session/lifecycle.rs) is not part of the sources at   *)
(* hand; its Drop is modelled from the specification text.                 *)
(***************************************************************************)
EXTENDS Integers, Sequences, FiniteSets, TLC

VARIABLES
    ephemeral,      \* AgentSession.ephemeral
    ctrlLock,       \* owner of the Arc<Mutex<AgentController>> lock
    inputs,         \* texts accepted by AgentController::send_user_input
    cancelCalls,    \* origins of the cancel() calls that reached the controller
    spawned,        \* cancel tasks spawned by DisconnectionHandler::drop, not yet run
    trace,          \* the Vec<ChatMessage> given to handle_request
    hrPc,           \* position of handle_request
    hrIdx,          \* number of trace messages handle_request has consumed
    published,      \* events sent on the broadcast channel, in emission order
    closed,         \* the broadcast sender is gone (agent task ended)
    event_rx,       \* the request's Receiver: [open, next]; start: events published
                    \* before it was created
    sstate,         \* state of the outbound stream (unfold)
    done,           \* the `done` flag of the unfold state
    accumulated_text, \* ChatCompletionFormatter.accumulated_text
    lifecycle,      \* the RequestLifecycle guard: none / held / dropped
    out,            \* items the outbound stream has yielded
    nread,          \* events the stream has taken from its receiver
    handler,        \* DisconnectionHandler: [present, controller, completed]
    endReported,    \* the unfold stream returned None (end-of-stream) to a poll
    serFailed,      \* serde_json::to_string failed for some formatted output
    ns,             \* handle_chat_completion: [pc, next, final_message, finish_reason]
    peer,           \* the other callers of AgentSession: [op, sid, pc, idx, result]
    lockB,          \* owner of the controller lock of a second AgentSession
    session,        \* the AgentSession object: [dropped, aborts]
    effective,      \* cancellations that took effect on the computation
    surfaced,       \* a failed cancel was reported to the client
    boundary        \* create_agent_from_model in handle_chat_completion:
                    \* [called, model, outcome, config, error, running]

vars == << ephemeral, ctrlLock, inputs, cancelCalls, spawned, trace, hrPc, hrIdx,
           published, closed, event_rx, sstate, done, accumulated_text, lifecycle,
           out, nread, handler, endReported, serFailed, ns, peer, lockB, session,
           effective, surfaced, boundary >>

(***************************************************************************)
(* Bounds of the model.                                                    *)
(***************************************************************************)
MaxEvents == 3      \* events one computation publishes
MaxTrace == 2       \* messages in a request trace
ChanCap == 2        \* capacity of the broadcast channel

(***************************************************************************)
(* The callers of AgentSession methods besides the request under study.    *)
(***************************************************************************)
Callers == {"p1", "p2"}
NoCall ==
    [op |-> "none", sid |-> "A", pc |-> "done", idx |-> 0, ctrl |-> "none",
     result |-> "none"]

(***************************************************************************)
(* Option<T>.                                                              *)
(***************************************************************************)
None == [some |-> FALSE]
Some(x) == [some |-> TRUE, val |-> x]
IsSome(o) == o.some
Unwrap(o) == o.val

(***************************************************************************)
(* lib.rs: create_agent_from_model.  A string (a model name, an error      *)
(* message) is the sequence of its characters; the outcome of              *)
(* AgentBuilder::create is Ok or an AgentError.                            *)
(***************************************************************************)
CreateOk == [ok |-> TRUE]
ConfigurationError(msg) == [ok |-> FALSE, variant |-> "ConfigurationError", msg |-> msg]
OtherAgentError(variant, msg) == [ok |-> FALSE, variant |-> variant, msg |-> msg]

\* the string literals of create_agent_from_model
StrDefault == << "d", "e", "f", "a", "u", "l", "t" >>
StrDoesNotExist ==
    << "d", "o", "e", "s", " ", "n", "o", "t", " ", "e", "x", "i", "s", "t" >>
StrAgentQuote == << "A", "g", "e", "n", "t", " ", "'" >>
StrQuoteNotFound ==
    << "'", " ", "n", "o", "t", " ", "f", "o", "u", "n", "d" >>
StrFailedToCreate ==
    << "F", "a", "i", "l", "e", "d", " ", "t", "o", " ", "c", "r", "e", "a",
       "t", "e", " ", "a", "g", "e", "n", "t", ":", " " >>

\* str::contains: pat is a substring of msg
Contains(msg, pat) ==
    \E i \in 0..(Len(msg) - Len(pat)) :
        \A j \in 1..Len(pat) : msg[i + j] = pat[j]

\* (mutant) a mapping that never answers not-found
IsNotFoundMessage_Never(msg) == FALSE

\* `msg.contains("does not exist")`
IsNotFoundMessage(msg) == Contains(msg, StrDoesNotExist)

\* `if model.is_empty() || model == "default" { None } else { Some(model) }`
agent_config_name(model) ==
    IF model = << >> \/ model = StrDefault THEN None ELSE Some(model)

\* the closure given to map_err: the ErrorResponse for an AgentError
MapCreateError(model, e) ==
    IF e.variant = "ConfigurationError"
    THEN IF IsNotFoundMessage(e.msg)
         THEN [kind |-> "not_found",
               message |-> StrAgentQuote \o model \o StrQuoteNotFound]
         ELSE [kind |-> "invalid_request", message |-> e.msg]
    ELSE [kind |-> "internal_error", message |-> StrFailedToCreate \o e.msg]

\* create_agent_from_model(model, session_id) when AgentBuilder::create resolves
\* to outcome: the config name it asked for and the Result it returns
create_agent_from_model(model, outcome) ==
    [config |-> agent_config_name(model),
     error |-> IF outcome.ok THEN None ELSE Some(MapCreateError(model, outcome))]

\* model names of a request
ModelCoder == << "c", "o", "d", "e", "r" >>
ModelGhost == << "g", "h", "o", "s", "t" >>
Models == { << >>, StrDefault, ModelCoder, ModelGhost }

\* handle_chat_completion before its first line
NoAgent ==
    [called |-> FALSE, model |-> << >>, outcome |-> CreateOk, config |-> None,
     error |-> None, running |-> FALSE]

\* handle_chat_completion at its first recv(): handler.rs 27-45 are done, so
\* create_agent_from_model resolved Ok for the model of the request and
\* agent.run() is spawned
AgentRunning(model) ==
    LET r == create_agent_from_model(model, CreateOk)
    IN  [called |-> TRUE, model |-> model, outcome |-> CreateOk, config |-> r.config,
         error |-> r.error, running |-> TRUE]

(***************************************************************************)
(* ChatMessage / ChatMessageContent values (shai_llm, openai_dive).        *)
(***************************************************************************)
ContentText(t) == [kind |-> "Text", text |-> t]
ContentPart(parts) == [kind |-> "ContentPart", parts |-> parts]
ContentNone == [kind |-> "None"]
TextPart(t) == [part |-> "Text", text |-> t]
ImagePart == [part |-> "Image"]

UserMessage(content) == [role |-> "user", content |-> content]
AssistantMessage(content) == [role |-> "assistant", content |-> content]
SystemMessage(t) == [role |-> "system", content |-> Some(ContentText(t))]

(***************************************************************************)
(* AgentEvent values (shai_core::agent::AgentEvent).                       *)
(***************************************************************************)
ThoughtOk(msg) == [ok |-> TRUE, msg |-> msg]
ThoughtErr == [ok |-> FALSE]

BrainResult(thought) == [type |-> "BrainResult", thought |-> thought]
ToolCallStarted(tool) == [type |-> "ToolCallStarted", tool_name |-> tool]
ToolSuccess == [kind |-> "Success"]
ToolError(errLines) == [kind |-> "Error", error |-> errLines]
ToolDenied == [kind |-> "Denied"]
ToolCallCompleted(tool, result) ==
    [type |-> "ToolCallCompleted", tool_name |-> tool, result |-> result]
StatusChanged(status) == [type |-> "StatusChanged", new_status |-> status]
Completed(message, success) ==
    [type |-> "Completed", message |-> message, success |-> success]
Error(error) == [type |-> "Error", error |-> error]
OtherEvent == [type |-> "ThinkingStart"]

\* BrainResult carrying an assistant text message
BrainText(t) == BrainResult(ThoughtOk(AssistantMessage(Some(ContentText(t)))))

(***************************************************************************)
(* streaming.rs: is_terminal_event                                         *)
(***************************************************************************)
is_terminal_event(event) ==
    \/ event.type = "Completed"
    \/ event.type = "StatusChanged" /\ event.new_status = "Paused"

(***************************************************************************)
(* formatter.rs: ChatCompletionFormatter                                   *)
(* A chunk keeps the fields of the delta that format_event sets, and the   *)
(* finish_reason of the choice.                                            *)
(***************************************************************************)
StopSequenceReached == "StopSequenceReached"

create_chunk(content, reasoning_content, finish_reason) ==
    [content |-> content, reasoning_content |-> reasoning_content,
     finish_reason |-> finish_reason]

\* (mutant) the last line of the error instead of the first
error_oneline_Last(errLines) ==
    IF Len(errLines) > 0 THEN errLines[Len(errLines)] ELSE ""

\* error.lines().next().unwrap_or(error); an error text is its sequence of lines
error_oneline(errLines) == IF Len(errLines) > 0 THEN errLines[1] ELSE ""

\* (mutant) a BrainResult arm whose pattern never matches
AssistantTextOf_Never(thought) == None

\* the `if let Ok(msg)` / `if let ChatMessage::Assistant { content: Some(Text(text)) }`
\* pattern of the BrainResult arm: Some(text) when it matches
AssistantTextOf(thought) ==
    IF /\ thought.ok
       /\ thought.msg.role = "assistant"
       /\ IsSome(thought.msg.content)
       /\ Unwrap(thought.msg.content).kind = "Text"
    THEN Some(Unwrap(thought.msg.content).text)
    ELSE None

\* (mutant) a BrainResult arm that streams the thought as a thinking chunk
BrainResultOutput_Thinking(thought) ==
    Some(create_chunk(None, Some("[thought]"), None))

\* the value of the BrainResult arm (line 76): nothing is emitted
BrainResultOutput(thought) == None

\* format_event(&mut self, event): the new accumulated_text and the Option<chunk>
format_event(acc, event) ==
    CASE event.type = "BrainResult" ->
            [acc |-> IF IsSome(AssistantTextOf(event.thought))
                     THEN Unwrap(AssistantTextOf(event.thought)) ELSE acc,
             output |-> BrainResultOutput(event.thought)]
      [] event.type = "ToolCallStarted" ->
            [acc |-> acc,
             output |-> Some(create_chunk(None,
                            Some("[toolcall: " \o event.tool_name \o "]"), None))]
      [] event.type = "ToolCallCompleted" ->
            [acc |-> acc,
             output |-> Some(create_chunk(None,
                Some(CASE event.result.kind = "Success" ->
                            "[tool succeeded: " \o event.tool_name \o "]"
                       [] event.result.kind = "Error" ->
                            "[tool failed: " \o event.tool_name \o " - "
                                \o error_oneline(event.result.error) \o "]"
                       [] event.result.kind = "Denied" ->
                            "[tool denied: " \o event.tool_name \o "]"),
                None))]
      [] event.type = "Completed" ->
            LET text == IF event.message # "" THEN event.message ELSE acc
            IN  [acc |-> text,
                 output |-> Some(create_chunk(Some(text), None,
                                              Some(StopSequenceReached)))]
      [] event.type = "Error" ->
            [acc |-> acc,
             output |-> Some(create_chunk(Some("Error: " \o event.error), None,
                                          Some(StopSequenceReached)))]
      [] OTHER -> [acc |-> acc, output |-> None]

(***************************************************************************)
(* session.rs: AgentSession::handle_request                                *)
(***************************************************************************)
RECURSIVE JoinNewline(_)
\* .collect::<Vec<_>>().join("\n")
JoinNewline(texts) ==
    IF Len(texts) = 0 THEN ""
    ELSE IF Len(texts) = 1 THEN texts[1]
    ELSE texts[1] \o "\n" \o JoinNewline(Tail(texts))

RECURSIVE TextParts(_)
\* parts.iter().filter_map(|p| match p { Text(text_part) => Some(text), _ => None })
TextParts(parts) ==
    IF Len(parts) = 0 THEN << >>
    ELSE IF Head(parts).part = "Text"
         THEN << Head(parts).text >> \o TextParts(Tail(parts))
         ELSE TextParts(Tail(parts))

\* the `let text = match content { .. }` of the ChatMessage::User arm
UserText(content) ==
    CASE content.kind = "Text" -> content.text
      [] content.kind = "ContentPart" -> JoinNewline(TextParts(content.parts))
      [] content.kind = "None" -> ""

\* (mutant) handle_request without the `if !text.is_empty()` test
ForwardedText_NoEmptyTest(msg) ==
    IF msg.role = "user" THEN Some(UserText(msg.content)) ELSE None

\* the text handle_request passes to send_user_input for msg, None when the
\* message is skipped (not ChatMessage::User, or empty text)
ForwardedText(msg) ==
    IF msg.role = "user" /\ UserText(msg.content) # ""
    THEN Some(UserText(msg.content))
    ELSE None

\* (mutant) lock_owned() that does not wait for the holder
CanLock_Always(holder) == TRUE

\* lock_owned().await completes when nobody holds the mutex
CanLock(holder) == holder = "free"

\* self.controller.clone().lock_owned().await
HandleRequestLock ==
    /\ hrPc = "start"
    /\ ~session.dropped
    /\ CanLock(ctrlLock)
    /\ ctrlLock' = "handle_request"
    /\ hrPc' = "replay"
    /\ UNCHANGED << ephemeral, inputs, cancelCalls, effective, spawned, trace, hrIdx, published,
                    closed, event_rx, sstate, done, accumulated_text, lifecycle, out,
                    nread, handler, endReported, serFailed, ns, peer,
                    lockB, session,
                    surfaced, boundary >>

\* one iteration of `for msg in trace`; sendOk is the outcome of send_user_input.
\* On Err the `?` returns: controller_guard is dropped, nothing else is built.
HandleRequestTurn(sendOk) ==
    /\ hrPc = "replay"
    /\ hrIdx < Len(trace)
    /\ LET fwd == ForwardedText(trace[hrIdx + 1])
       IN  IF IsSome(fwd)
           THEN IF sendOk
                THEN /\ inputs' = Append(inputs, Unwrap(fwd))
                     /\ hrIdx' = hrIdx + 1
                     /\ UNCHANGED << hrPc, ctrlLock >>
                ELSE /\ hrPc' = "failed"
                     /\ ctrlLock' = "free"
                     /\ UNCHANGED << inputs, hrIdx >>
           ELSE /\ sendOk
                /\ hrIdx' = hrIdx + 1
                /\ UNCHANGED << inputs, hrPc, ctrlLock >>
    /\ UNCHANGED << ephemeral, cancelCalls, effective, spawned, trace, published, closed,
                    event_rx, sstate, done, accumulated_text, lifecycle, out, nread,
                    handler, endReported, serFailed, ns, peer,
                    lockB, session,
                    surfaced, boundary >>

\* (mutant) a subscription that replays the channel from its first event
resubscribe_FromOldest(log) == [open |-> TRUE, next |-> 0]

\* self.event_rx.resubscribe(): a receiver positioned at the tail of the channel
\* (`next` events are behind it)
resubscribe(log) == [open |-> TRUE, next |-> Len(log)]

\* lines 97-101: resubscribe, clone the controller, RequestLifecycle::new(ephemeral,
\* controller_guard, session_id) takes the owned lock guard, Ok(RequestSession{..})
HandleRequestReturn ==
    /\ hrPc = "replay"
    /\ hrIdx = Len(trace)
    /\ event_rx' = [open |-> resubscribe(published).open,
                    next |-> resubscribe(published).next,
                    start |-> Len(published)]
    /\ lifecycle' = "held"
    /\ ctrlLock' = "lifecycle"
    /\ hrPc' = "returned"
    /\ UNCHANGED << ephemeral, inputs, cancelCalls, effective, spawned, trace, hrIdx, published,
                    closed, sstate, done, accumulated_text, out, nread, handler,
                    endReported, serFailed, ns, peer,
                    lockB, session,
                    surfaced, boundary >>

(***************************************************************************)
(* tokio broadcast channel and BroadcastStream, as the stream uses them.   *)
(***************************************************************************)
\* (mutant) a point-to-point queue: the slowest receiver decides what overflows
RxNext_SharedQueue(rx, log, isClosed) ==
    LET slowest == IF ns.next < rx.next THEN ns.next ELSE rx.next
    IN  IF Len(log) - slowest > ChanCap THEN [tag |-> "err"]
        ELSE IF rx.next < Len(log) THEN [tag |-> "event", event |-> log[rx.next + 1]]
        ELSE IF isClosed THEN [tag |-> "closed"]
        ELSE [tag |-> "pending"]

\* (mutant) a receiver that is handed the newest event instead of its next one
RxNext_Newest(rx, log, isClosed) ==
    IF Len(log) - rx.next > ChanCap THEN [tag |-> "err"]
    ELSE IF rx.next < Len(log) THEN [tag |-> "event", event |-> log[Len(log)]]
    ELSE IF isClosed THEN [tag |-> "closed"]
    ELSE [tag |-> "pending"]

\* what BroadcastStream::next() resolves to for receiver rx; "pending" when it
\* cannot resolve yet.  A receiver more than ChanCap events behind gets
\* Some(Err(Lagged)), a drained receiver of a closed channel gets None.
RxNext(rx, log, isClosed) ==
    IF Len(log) - rx.next > ChanCap THEN [tag |-> "err"]
    ELSE IF rx.next < Len(log) THEN [tag |-> "event", event |-> log[rx.next + 1]]
    ELSE IF isClosed THEN [tag |-> "closed"]
    ELSE [tag |-> "pending"]

\* the computation publishes one event
Publish(e) ==
    /\ ~closed
    /\ Len(published) < MaxEvents
    /\ published' = Append(published, e)
    /\ UNCHANGED << ephemeral, ctrlLock, inputs, cancelCalls, effective, spawned, trace, hrPc,
                    hrIdx, closed, event_rx, sstate, done, accumulated_text,
                    lifecycle, out, nread, handler, endReported, serFailed, ns, peer,
                    lockB, session,
                    surfaced, boundary >>

\* the agent task ends (finished or aborted): the sender is dropped
AgentExit ==
    /\ ~closed
    /\ closed' = TRUE
    /\ UNCHANGED << ephemeral, ctrlLock, inputs, cancelCalls, effective, spawned, trace, hrPc,
                    hrIdx, published, event_rx, sstate, done, accumulated_text,
                    lifecycle, out, nread, handler, endReported, serFailed, ns, peer,
                    lockB, session,
                    surfaced, boundary >>

(***************************************************************************)
(* RequestLifecycle (session/lifecycle.rs, not among the sources): its     *)
(* teardown, from the specification: an ephemeral guard cancels the        *)
(* computation when it goes out of scope, a persistent one does not.       *)
(***************************************************************************)
LifecycleDropCancels(isEphemeral) == isEphemeral

\* the effect of dropping the guard on cancelCalls / ctrlLock
CancelsAfterLifecycleDrop(calls, isEphemeral) ==
    IF LifecycleDropCancels(isEphemeral) THEN Append(calls, "lifecycle") ELSE calls

(***************************************************************************)
(* AgentController::cancel (shai-core, not among the sources), from the    *)
(* specification: `cancel() -> Result<(), Error>`; a call may fail         *)
(* (CancellationError), and of the calls that succeed only the first one   *)
(* on a running computation has an effect.                                 *)
(***************************************************************************)
\* what one call of AgentController::cancel may return
ControllerCancelOutcomes == { "Ok", "Err" }
CancelIsEffective(n, finished) == n = 0 /\ ~finished
EffectiveAfterCancel(n, finished) == IF CancelIsEffective(n, finished) THEN n + 1 ELSE n

\* the effect of dropping the guard on the computation
EffectiveAfterLifecycleDrop(n, isEphemeral, finished) ==
    IF LifecycleDropCancels(isEphemeral) THEN EffectiveAfterCancel(n, finished) ELSE n

(***************************************************************************)
(* lib.rs: DisconnectionHandler                                            *)
(***************************************************************************)
\* `controller` is whether the Option holds a controller; `dropped` records that
\* Drop has run (the other fields then keep their value at that moment)
NoHandler ==
    [present |-> FALSE, controller |-> FALSE, completed |-> FALSE, dropped |-> FALSE]
NewHandler(hasController) ==
    [present |-> TRUE, controller |-> hasController, completed |-> FALSE,
     dropped |-> FALSE]

\* (mutant) poll_next that forwards Ready(None) without marking completion
poll_next_NoMark(h, innerEnded) == h

\* poll_next: `Ready(None) => { self.completed = true; .. }`, `other => other`
poll_next(h, innerEnded) ==
    IF h.present /\ innerEnded THEN [h EXCEPT !.completed = TRUE] ELSE h

\* Drop: `if let Some(controller) = self.controller.take()` and `!self.completed`
\* lead to tokio::spawn(controller.cancel())
DropSpawnsCancel(h) == h.present /\ h.controller /\ ~h.completed

(***************************************************************************)
(* streaming.rs: sse_stream_internal, one pass of the loop of the unfold   *)
(* closure for what rx.next() resolved to.  serOk is the outcome of        *)
(* serde_json::to_string.  Result: what the closure does next ("item":     *)
(* return Some((Ok(event), state)), "end": return None, "continue"), the   *)
(* done flag and formatter state it carries on, and the item.              *)
(***************************************************************************)
\* (mutant) an unfold closure that gives up on a serialization failure
UnfoldStep_EndOnSerFailure(isDone, acc, rxItem, serOk) ==
    IF rxItem.tag = "event"
    THEN LET is_terminal == is_terminal_event(rxItem.event)
             formatted == format_event(acc, rxItem.event)
             new_done == IF is_terminal THEN TRUE ELSE isDone
         IN  IF IsSome(formatted.output)
             THEN IF serOk
                  THEN [next |-> "item", done |-> new_done, acc |-> formatted.acc,
                        item |-> formatted.output]
                  ELSE [next |-> "end", done |-> isDone, acc |-> formatted.acc,
                        item |-> None]
             ELSE IF new_done
                  THEN [next |-> "end", done |-> new_done, acc |-> formatted.acc,
                        item |-> None]
                  ELSE [next |-> "continue", done |-> isDone, acc |-> formatted.acc,
                        item |-> None]
    ELSE [next |-> "end", done |-> isDone, acc |-> acc, item |-> None]

UnfoldStep(isDone, acc, rxItem, serOk) ==
    IF rxItem.tag = "event"
    THEN LET is_terminal == is_terminal_event(rxItem.event)
             formatted == format_event(acc, rxItem.event)
             new_done == IF is_terminal THEN TRUE ELSE isDone
         IN  IF IsSome(formatted.output)
             THEN IF serOk
                  THEN [next |-> "item", done |-> new_done, acc |-> formatted.acc,
                        item |-> formatted.output]
                  ELSE [next |-> "continue", done |-> isDone, acc |-> formatted.acc,
                        item |-> None]
             ELSE IF new_done
                  THEN [next |-> "end", done |-> new_done, acc |-> formatted.acc,
                        item |-> None]
                  ELSE [next |-> "continue", done |-> isDone, acc |-> formatted.acc,
                        item |-> None]
    ELSE [next |-> "end", done |-> isDone, acc |-> acc, item |-> None]

(***************************************************************************)
(* The outbound stream of one request.                                     *)
(*   sstate: "none"     no stream yet                                      *)
(*           "ready"    the unfold state is stored, no poll in progress    *)
(*           "polling"  a poll is inside the loop, awaiting rx.next()      *)
(*           "ended"    a poll returned None; the unfold state is gone     *)
(*           "dropping" Drop for the wrapper has run, its fields live on   *)
(*           "dropped"  the stream (and its wrapper) has been dropped      *)
(*           "unbuilt"  the RequestSession was dropped before any stream   *)
(***************************************************************************)
\* (mutant) session_to_sse_stream that lets go of the lifecycle as it does of
\* `_controller`, building the stream with lifecycle None
SessionToSseStream_DropsLifecycle(wrap, hasController) ==
    /\ hrPc = "returned"
    /\ sstate = "none"
    /\ sstate' = "ready"
    /\ done' = FALSE
    /\ accumulated_text' = ""
    /\ handler' = IF wrap THEN NewHandler(hasController) ELSE NoHandler
    /\ lifecycle' = "dropped"
    /\ cancelCalls' = CancelsAfterLifecycleDrop(cancelCalls, ephemeral)
    /\ effective' = EffectiveAfterLifecycleDrop(effective, ephemeral, closed)
    /\ ctrlLock' = "free"
    /\ UNCHANGED << ephemeral, inputs, spawned, trace, hrPc, hrIdx, published, closed,
                    event_rx, out, nread, endReported, serFailed, ns, peer, lockB,
                    session, surfaced, boundary >>

\* session_to_sse_stream(request_session, formatter, session_id), the formatter
\* being a new ChatCompletionFormatter; the caller may wrap the stream in a
\* DisconnectionHandler, with or without a controller
SessionToSseStream(wrap, hasController) ==
    /\ hrPc = "returned"
    /\ sstate = "none"
    /\ sstate' = "ready"
    /\ done' = FALSE
    /\ accumulated_text' = ""
    /\ handler' = IF wrap THEN NewHandler(hasController) ELSE NoHandler
    /\ UNCHANGED << ephemeral, ctrlLock, inputs, cancelCalls, effective, spawned, trace, hrPc,
                    hrIdx, published, closed, event_rx, lifecycle, out, nread,
                    endReported, serFailed, ns, peer,
                    lockB, session,
                    surfaced, boundary >>

\* the request handler fails after handle_request returned: the RequestSession
\* (controller, event_rx, lifecycle) is dropped without a stream
DropRequestSession ==
    /\ hrPc = "returned"
    /\ sstate = "none"
    /\ sstate' = "unbuilt"
    /\ lifecycle' = "dropped"
    /\ cancelCalls' = CancelsAfterLifecycleDrop(cancelCalls, ephemeral)
    /\ effective' = EffectiveAfterLifecycleDrop(effective, ephemeral, closed)
    /\ ctrlLock' = "free"
    /\ event_rx' = [event_rx EXCEPT !.open = FALSE]
    /\ UNCHANGED << ephemeral, inputs, spawned, trace, hrPc, hrIdx, published, closed,
                    done, accumulated_text, out, nread, handler, endReported,
                    serFailed, ns, peer,
                    lockB, session,
                    surfaced, boundary >>

\* (mutant) the lifecycle is captured by the closure instead of living in the
\* unfold state: returning None does not release it
StreamEnds_KeepsLifecycle ==
    /\ sstate' = "ended"
    /\ endReported' = TRUE
    /\ handler' = poll_next(handler, TRUE)
    /\ UNCHANGED << lifecycle, cancelCalls, effective, ctrlLock >>

\* the unfold closure returns None: its state (rx, fmt, done, lifecycle) is
\* dropped, and a wrapping DisconnectionHandler sees Ready(None)
StreamEnds ==
    /\ sstate' = "ended"
    /\ endReported' = TRUE
    /\ handler' = poll_next(handler, TRUE)
    /\ lifecycle' = "dropped"
    /\ cancelCalls' = CancelsAfterLifecycleDrop(cancelCalls, ephemeral)
    /\ effective' = EffectiveAfterLifecycleDrop(effective, ephemeral, closed)
    /\ ctrlLock' = "free"

\* the consumer polls the stream: `if done { return None; }`, else enter the loop
Pull ==
    /\ sstate = "ready"
    /\ IF done
       THEN /\ StreamEnds
            /\ event_rx' = [event_rx EXCEPT !.open = FALSE]
       ELSE /\ sstate' = "polling"
            /\ UNCHANGED << endReported, handler, lifecycle, cancelCalls, effective, ctrlLock,
                            event_rx >>
    /\ UNCHANGED << ephemeral, inputs, spawned, trace, hrPc, hrIdx, published, closed,
                    done, accumulated_text, out, nread, serFailed, ns, peer,
                    lockB, session,
                    surfaced, boundary >>

\* rx.next() resolves inside a poll and the loop body runs once
Step(serOk) ==
    /\ sstate = "polling"
    /\ LET rxItem == RxNext(event_rx, published, closed)
           r == UnfoldStep(done, accumulated_text, rxItem, serOk)
           isEvent == rxItem.tag = "event"
           advanced == IF isEvent THEN [event_rx EXCEPT !.next = @ + 1] ELSE event_rx
       IN  /\ rxItem.tag # "pending"
           /\ nread' = IF isEvent THEN nread + 1 ELSE nread
           /\ accumulated_text' = r.acc
           /\ done' = r.done
           /\ serFailed' = (serFailed \/ (isEvent /\ r.next = "continue" /\
                              IsSome(format_event(accumulated_text, rxItem.event).output)))
           /\ CASE r.next = "item" ->
                     /\ out' = Append(out, [chunk |-> Unwrap(r.item),
                                            src |-> event_rx.next + 1])
                     /\ sstate' = "ready"
                     /\ event_rx' = advanced
                     /\ UNCHANGED << endReported, handler, lifecycle, cancelCalls, effective,
                                     ctrlLock >>
                [] r.next = "continue" ->
                     /\ event_rx' = advanced
                     /\ UNCHANGED << out, sstate, endReported, handler, lifecycle,
                                     cancelCalls, effective, ctrlLock >>
                [] r.next = "end" ->
                     /\ StreamEnds
                     /\ event_rx' = [advanced EXCEPT !.open = FALSE]
                     /\ UNCHANGED out
    /\ UNCHANGED << ephemeral, inputs, spawned, trace, hrPc, hrIdx, published, closed,
                    ns, peer,
                    lockB, session,
                    surfaced, boundary >>

\* the consumer goes away: the response body is dropped.  The body of Drop for
\* DisconnectionHandler runs: it spawns the cancel task, when there is one to
\* spawn, and returns.  The fields of the handler are still alive.
DropStream ==
    /\ sstate \in {"ready", "polling", "ended"}
    /\ sstate' = "dropping"
    /\ spawned' = IF DropSpawnsCancel(handler) THEN spawned + 1 ELSE spawned
    /\ handler' = IF handler.present THEN [handler EXCEPT !.dropped = TRUE] ELSE handler
    /\ UNCHANGED << ephemeral, ctrlLock, inputs, cancelCalls, trace, hrPc, hrIdx,
                    published, closed, event_rx, done, accumulated_text, lifecycle,
                    out, nread, endReported, serFailed, ns, peer, lockB, session,
                    effective, surfaced, boundary >>

\* after the body of Drop has returned, the fields are dropped: the wrapped
\* stream, and with it the unfold state if it is still there (the receiver and
\* the RequestLifecycle with its mutex guard).  A task spawned by the body may
\* have run in between.
DropStreamFields ==
    /\ sstate = "dropping"
    /\ sstate' = "dropped"
    /\ IF lifecycle = "held"
       THEN /\ lifecycle' = "dropped"
            /\ cancelCalls' = CancelsAfterLifecycleDrop(cancelCalls, ephemeral)
            /\ effective' = EffectiveAfterLifecycleDrop(effective, ephemeral, closed)
            /\ ctrlLock' = "free"
            /\ event_rx' = [event_rx EXCEPT !.open = FALSE]
       ELSE UNCHANGED << lifecycle, cancelCalls, effective, ctrlLock, event_rx >>
    /\ UNCHANGED << ephemeral, inputs, spawned, trace, hrPc, hrIdx, published, closed,
                    done, accumulated_text, out, nread, handler, endReported,
                    serFailed, ns, peer, lockB, session, surfaced, boundary >>

\* a task spawned by Drop for DisconnectionHandler runs: controller.cancel().await
RunCancelTask ==
    /\ spawned > 0
    /\ spawned' = spawned - 1
    /\ cancelCalls' = Append(cancelCalls, "handler")
    /\ effective' = EffectiveAfterCancel(effective, closed)
    /\ UNCHANGED << ephemeral, ctrlLock, inputs, trace, hrPc, hrIdx, published, closed,
                    event_rx, sstate, done, accumulated_text, lifecycle, out, nread,
                    handler, endReported, serFailed, ns, peer,
                    lockB, session,
                    surfaced, boundary >>

\* (mutant) a spawned task that reports the failure of cancel to the client
CancelTaskSurfaces_Err(result) == result = "Err"

\* `let _ = controller.cancel().await;`: the result of the call is discarded
CancelTaskSurfaces(result) == FALSE

\* a task spawned by Drop for DisconnectionHandler runs and controller.cancel()
\* returns Err
RunCancelTaskFails ==
    /\ spawned > 0
    /\ spawned' = spawned - 1
    /\ cancelCalls' = Append(cancelCalls, "handler-failed")
    /\ surfaced' = (surfaced \/ CancelTaskSurfaces("Err"))
    /\ UNCHANGED << ephemeral, ctrlLock, inputs, effective, trace, hrPc, hrIdx,
                    published, closed, event_rx, sstate, done, accumulated_text,
                    lifecycle, out, nread, handler, endReported, serFailed, ns, peer,
                    lockB, session, boundary >>

(***************************************************************************)
(* handler.rs: handle_chat_completion, the non-streaming collection loop.  *)
(***************************************************************************)
\* (mutant) a loop whose Completed arm keeps the collected text
CompletionLoopBody_KeepsText(final_message, finish_reason, event) ==
    CASE event.type = "BrainResult" ->
            [final_message |-> IF IsSome(AssistantTextOf(event.thought))
                               THEN Unwrap(AssistantTextOf(event.thought))
                               ELSE final_message,
             finish_reason |-> finish_reason, break |-> FALSE]
      [] event.type = "Completed" ->
            [final_message |-> final_message,
             finish_reason |-> IF ~event.success THEN StopSequenceReached
                               ELSE finish_reason,
             break |-> TRUE]
      [] event.type = "StatusChanged" ->
            [final_message |-> final_message, finish_reason |-> finish_reason,
             break |-> event.new_status = "Paused"]
      [] event.type = "Error" ->
            [final_message |-> final_message, finish_reason |-> StopSequenceReached,
             break |-> TRUE]
      [] OTHER ->
            [final_message |-> final_message, finish_reason |-> finish_reason,
             break |-> FALSE]

\* the body of `while let Ok(event) = event_rx.recv().await { match event {..} }`
\* for one event: the new final_message and finish_reason, and whether it breaks
CompletionLoopBody(final_message, finish_reason, event) ==
    CASE event.type = "BrainResult" ->
            [final_message |-> IF IsSome(AssistantTextOf(event.thought))
                               THEN Unwrap(AssistantTextOf(event.thought))
                               ELSE final_message,
             finish_reason |-> finish_reason, break |-> FALSE]
      [] event.type = "Completed" ->
            [final_message |-> IF event.message # "" THEN event.message
                               ELSE final_message,
             finish_reason |-> IF ~event.success THEN StopSequenceReached
                               ELSE finish_reason,
             break |-> TRUE]
      [] event.type = "StatusChanged" ->
            [final_message |-> final_message, finish_reason |-> finish_reason,
             break |-> event.new_status = "Paused"]
      [] event.type = "Error" ->
            [final_message |-> final_message, finish_reason |-> StopSequenceReached,
             break |-> TRUE]
      [] OTHER ->
            [final_message |-> final_message, finish_reason |-> finish_reason,
             break |-> FALSE]

\* event_rx.recv() resolves in handle_chat_completion: the loop body runs, or the
\* loop ends on Err (channel closed, or the receiver lagged); after the loop the
\* single ChatCompletionResponse is built from final_message and finish_reason
CompletionRecv ==
    /\ ns.pc = "recv"
    /\ LET rxItem == RxNext(ns, published, closed)
       IN  /\ rxItem.tag # "pending"
           /\ IF rxItem.tag = "event"
              THEN LET r == CompletionLoopBody(ns.final_message, ns.finish_reason,
                                               rxItem.event)
                   IN  ns' = [pc |-> IF r.break THEN "responded" ELSE "recv",
                              next |-> ns.next + 1,
                              final_message |-> r.final_message,
                              finish_reason |-> r.finish_reason]
              ELSE ns' = [ns EXCEPT !.pc = "responded"]
    /\ UNCHANGED << ephemeral, ctrlLock, inputs, cancelCalls, effective, spawned, trace, hrPc,
                    hrIdx, published, closed, event_rx, sstate, done, accumulated_text,
                    lifecycle, out, nread, handler, endReported, serFailed, peer,
                    lockB, session,
                    surfaced, boundary >>

\* handler.rs 27-33: create_agent_from_model(..).await? and, on Ok, the agent is
\* built and watched; on Err the handler returns the ErrorResponse
CreateAgent(model, outcome) ==
    /\ ns.pc = "idle"
    /\ ~boundary.called
    /\ LET r == create_agent_from_model(model, outcome)
       IN  /\ boundary' = [called |-> TRUE, model |-> model, outcome |-> outcome,
                           config |-> r.config, error |-> r.error, running |-> FALSE]
           /\ ns' = [ns EXCEPT !.pc = IF IsSome(r.error) THEN "rejected"
                                      ELSE "watching",
                               !.next = Len(published)]
    /\ UNCHANGED << ephemeral, ctrlLock, inputs, cancelCalls, effective, spawned, trace,
                    hrPc, hrIdx, published, closed, event_rx, sstate, done,
                    accumulated_text, lifecycle, out, nread, handler, endReported,
                    serFailed, peer, lockB, session, surfaced >>

\* handler.rs 36-45: tokio::spawn(agent.run()), then the loop is entered
SpawnAgentRun ==
    /\ ns.pc = "watching"
    /\ ~boundary.running
    /\ boundary' = [boundary EXCEPT !.running = TRUE]
    /\ ns' = [ns EXCEPT !.pc = "recv"]
    /\ UNCHANGED << ephemeral, ctrlLock, inputs, cancelCalls, effective, spawned, trace,
                    hrPc, hrIdx, published, closed, event_rx, sstate, done,
                    accumulated_text, lifecycle, out, nread, handler, endReported,
                    serFailed, peer, lockB, session, surfaced >>

(***************************************************************************)
(* session.rs: the other callers of one AgentSession.  Every AgentSession  *)
(* has its own Arc<Mutex<AgentController>> (AgentSession::new); session    *)
(* "A" is the one of the request under study (ctrlLock), "B" another one.  *)
(***************************************************************************)
LockHolder(sid) == IF sid = "A" THEN ctrlLock ELSE lockB

\* (mutant) a cancel that discards the result of the call, as the disconnect
\* path does with `let _ =`
SessionCancelResult_Discards(ctrlResult) == "Ok"

\* AgentSession::cancel: `ctrl.cancel().await` is the tail expression, the
\* Result of the controller is returned as it is
SessionCancelResult(ctrlResult) == ctrlResult

\* the trace of a second handle_request
PeerTrace ==
    << UserMessage(ContentText("p-one")), UserMessage(ContentText("p-two")) >>

\* a caller issues AgentSession::cancel or AgentSession::handle_request on sid
PeerCall(c, op, sid) ==
    /\ peer[c].op = "none"
    /\ ~session.dropped
    /\ peer' = [peer EXCEPT ![c] = [op |-> op, sid |-> sid, pc |-> "start",
                                    idx |-> 0, ctrl |-> "none", result |-> "none"]]
    /\ UNCHANGED << ephemeral, ctrlLock, inputs, cancelCalls, effective, spawned, trace,
                    hrPc, hrIdx, published, closed, event_rx, sstate, done,
                    accumulated_text, lifecycle, out, nread, handler, endReported,
                    serFailed, ns, lockB, session,
                    surfaced, boundary >>

\* self.controller.clone().lock_owned().await of cancel / handle_request
PeerLock(c) ==
    /\ peer[c].op # "none"
    /\ peer[c].pc = "start"
    /\ CanLock(LockHolder(peer[c].sid))
    /\ peer' = [peer EXCEPT ![c].pc = "locked"]
    /\ IF peer[c].sid = "A"
       THEN ctrlLock' = c /\ UNCHANGED lockB
       ELSE lockB' = c /\ UNCHANGED ctrlLock
    /\ UNCHANGED << ephemeral, inputs, cancelCalls, effective, spawned, trace, hrPc,
                    hrIdx, published, closed, event_rx, sstate, done,
                    accumulated_text, lifecycle, out, nread, handler, endReported,
                    serFailed, ns, session,
                    surfaced, boundary >>

\* cancel: ctrl.cancel().await resolves to ctrlResult (kept in `ctrl`), the
\* result is returned and the guard goes out of scope
PeerCancel(c, ctrlResult) ==
    /\ peer[c].op = "cancel"
    /\ peer[c].pc = "locked"
    /\ peer' = [peer EXCEPT ![c].pc = "done",
                            ![c].ctrl = ctrlResult,
                            ![c].result = SessionCancelResult(ctrlResult)]
    /\ IF peer[c].sid = "A"
       THEN /\ cancelCalls' = Append(cancelCalls, c)
            /\ effective' = IF ctrlResult = "Ok"
                            THEN EffectiveAfterCancel(effective, closed)
                            ELSE effective
            /\ ctrlLock' = "free"
            /\ UNCHANGED lockB
       ELSE /\ lockB' = "free"
            /\ UNCHANGED << cancelCalls, effective, ctrlLock >>
    /\ UNCHANGED << ephemeral, inputs, spawned, trace, hrPc, hrIdx, published, closed,
                    event_rx, sstate, done, accumulated_text, lifecycle, out, nread,
                    handler, endReported, serFailed, ns, session,
                    surfaced, boundary >>

\* handle_request of a peer: one iteration of `for msg in trace`; sendOk is the
\* outcome of send_user_input.  On Err the `?` returns Err: the guard of the
\* peer is dropped, no RequestSession is built.
PeerTurn(c, sendOk) ==
    /\ peer[c].op = "handle_request"
    /\ peer[c].pc = "locked"
    /\ peer[c].idx < Len(PeerTrace)
    /\ LET fwd == ForwardedText(PeerTrace[peer[c].idx + 1])
       IN  IF IsSome(fwd)
           THEN IF sendOk
                THEN /\ inputs' = IF peer[c].sid = "A"
                                  THEN Append(inputs, Unwrap(fwd)) ELSE inputs
                     /\ peer' = [peer EXCEPT ![c].idx = @ + 1]
                     /\ UNCHANGED << ctrlLock, lockB >>
                ELSE /\ peer' = [peer EXCEPT ![c].pc = "done", ![c].result = "Err"]
                     /\ IF peer[c].sid = "A"
                        THEN ctrlLock' = "free" /\ UNCHANGED lockB
                        ELSE lockB' = "free" /\ UNCHANGED ctrlLock
                     /\ UNCHANGED inputs
           ELSE /\ sendOk
                /\ peer' = [peer EXCEPT ![c].idx = @ + 1]
                /\ UNCHANGED << inputs, ctrlLock, lockB >>
    /\ UNCHANGED << ephemeral, cancelCalls, effective, spawned, trace, hrPc,
                    hrIdx, published, closed, event_rx, sstate, done,
                    accumulated_text, lifecycle, out, nread, handler, endReported,
                    serFailed, ns, session,
                    surfaced, boundary >>

\* handle_request of a peer returns its RequestSession: as for the request under
\* study the owned lock guard has moved into its RequestLifecycle
PeerReturn(c) ==
    /\ peer[c].op = "handle_request"
    /\ peer[c].pc = "locked"
    /\ peer[c].idx = Len(PeerTrace)
    /\ peer' = [peer EXCEPT ![c].pc = "returned", ![c].result = "Ok"]
    /\ UNCHANGED << ephemeral, ctrlLock, inputs, cancelCalls, effective, spawned, trace,
                    hrPc, hrIdx, published, closed, event_rx, sstate, done,
                    accumulated_text, lifecycle, out, nread, handler, endReported,
                    serFailed, ns, lockB, session,
                    surfaced, boundary >>

\* the RequestSession of a peer is dropped (its stream ended or was dropped)
PeerRequestEnds(c) ==
    /\ peer[c].pc = "returned"
    /\ peer' = [peer EXCEPT ![c].pc = "done"]
    /\ IF peer[c].sid = "A"
       THEN /\ cancelCalls' = CancelsAfterLifecycleDrop(cancelCalls, ephemeral)
            /\ effective' = EffectiveAfterLifecycleDrop(effective, ephemeral, closed)
            /\ ctrlLock' = "free"
            /\ UNCHANGED lockB
       ELSE /\ lockB' = "free"
            /\ UNCHANGED << cancelCalls, effective, ctrlLock >>
    /\ UNCHANGED << ephemeral, inputs, spawned, trace, hrPc, hrIdx, published, closed,
                    event_rx, sstate, done, accumulated_text, lifecycle, out, nread,
                    handler, endReported, serFailed, ns, session,
                    surfaced, boundary >>

(***************************************************************************)
(* Specification of one request against one session.                       *)
(***************************************************************************)
Texts == {"T1", "T2"}

\* the events the computation may publish
StreamEvents ==
    { BrainText("T1"), ToolCallStarted("search"), StatusChanged("Paused"),
      Completed("", TRUE), Completed("T2", TRUE), Error("backend timeout") }

\* handle_chat_completion not running / after `agent.watch()` and lines 44-45
NsIdle == [pc |-> "idle", next |-> 0, final_message |-> "",
           finish_reason |-> StopSequenceReached]
NsWatching == [NsIdle EXCEPT !.pc = "recv"]

InitWith(traces, ns0, agents) ==
    /\ ephemeral \in BOOLEAN
    /\ ctrlLock = "free"
    /\ inputs = << >>
    /\ cancelCalls = << >>
    /\ spawned = 0
    /\ trace \in traces
    /\ hrPc = "start"
    /\ hrIdx = 0
    /\ published = << >>
    /\ closed = FALSE
    /\ event_rx = [open |-> FALSE, next |-> 0, start |-> 0]
    /\ sstate = "none"
    /\ done = FALSE
    /\ accumulated_text = ""
    /\ lifecycle = "none"
    /\ out = << >>
    /\ nread = 0
    /\ handler = NoHandler
    /\ endReported = FALSE
    /\ serFailed = FALSE
    /\ ns = ns0
    /\ peer = [c \in Callers |-> NoCall]
    /\ lockB = "free"
    /\ session = [dropped |-> FALSE, aborts |-> 0]
    /\ effective = 0
    /\ surfaced = FALSE
    /\ boundary \in agents

Init == InitWith({ << UserMessage(ContentText("hello")) >> }, NsIdle, { NoAgent })

\* everything but the loop body of the stream
NextRequest ==
    \/ HandleRequestLock
    \/ \E sendOk \in BOOLEAN : HandleRequestTurn(sendOk)
    \/ HandleRequestReturn
    \/ \E wrap \in BOOLEAN, hasController \in BOOLEAN :
            SessionToSseStream(wrap, hasController)
    \/ DropRequestSession
    \/ \E e \in StreamEvents : Publish(e)
    \/ AgentExit
    \/ Pull
    \/ DropStream
    \/ DropStreamFields
    \/ RunCancelTask

\* sse_stream_internal over any EventFormatter: serde_json::to_string of an
\* output may fail
Next ==
    \/ NextRequest
    \/ \E serOk \in BOOLEAN : Step(serOk)

Spec == Init /\ [][Next]_vars

\* the chat-completion stream: a ChatCompletionChunkResponse (strings, numbers,
\* options) always serializes
NextChat ==
    \/ NextRequest
    \/ Step(TRUE)

SpecChat == Init /\ [][NextChat]_vars

(***************************************************************************)
(* Specification of handle_request over the traces a client may send.      *)
(***************************************************************************)
TraceMessages ==
    { UserMessage(ContentText("hello")),
      UserMessage(ContentText("")),
      UserMessage(ContentPart(<< TextPart("a"), ImagePart, TextPart("b") >>)),
      UserMessage(ContentPart(<< ImagePart >>)),
      UserMessage(ContentNone),
      AssistantMessage(Some(ContentText("hi"))),
      SystemMessage("be brief") }

RECURSIVE SeqsUpTo(_, _)
\* the sequences over S of length at most n
SeqsUpTo(S, n) ==
    IF n = 0 THEN { << >> }
    ELSE LET shorter == SeqsUpTo(S, n - 1)
         IN  shorter \cup { Append(q, x) : q \in shorter, x \in S }

InitTrace == InitWith(SeqsUpTo(TraceMessages, MaxTrace), NsIdle, { NoAgent })

NextTrace ==
    \/ HandleRequestLock
    \/ \E sendOk \in BOOLEAN : HandleRequestTurn(sendOk)
    \/ HandleRequestReturn
    \/ DropRequestSession

SpecTrace == InitTrace /\ [][NextTrace]_vars

(***************************************************************************)
(* Specification of the two chat-completion pipelines fed the same event   *)
(* sequence: the streaming one (sse_stream_internal with a                 *)
(* ChatCompletionFormatter) and the non-streaming loop.                    *)
(***************************************************************************)
\* ToolCallStarted(search), ToolCallCompleted(search, Success), BrainResult(T),
\* Completed(T, success = true)
Scenario(T) ==
    << ToolCallStarted("search"), ToolCallCompleted("search", ToolSuccess),
       BrainText(T), Completed(T, TRUE) >>

\* the event sequences the computation runs through
Scripts ==
    { Scenario(T) : T \in Texts } \cup
    { << BrainText("T1"), ToolCallStarted("search"),
         ToolCallCompleted("search", ToolDenied), Completed("", TRUE) >>,
      << ToolCallStarted("search"),
         ToolCallCompleted("search", ToolError(<< "boom", "at line 2" >>)),
         BrainText("T1"), Completed("T2", FALSE) >>,
      << BrainText("T1"), ToolCallStarted("shell"),
         ToolCallCompleted("shell", ToolError(<< >>)), Completed("", TRUE) >> }

\* the computation publishes the next event of its script
PublishScript ==
    /\ ~closed
    /\ \E sc \in Scripts :
          /\ Len(published) < Len(sc)
          /\ SubSeq(sc, 1, Len(published)) = published
          /\ published' = Append(published, sc[Len(published) + 1])
    /\ UNCHANGED << ephemeral, ctrlLock, inputs, cancelCalls, effective, spawned, trace, hrPc,
                    hrIdx, closed, event_rx, sstate, done, accumulated_text,
                    lifecycle, out, nread, handler, endReported, serFailed, ns, peer,
                    lockB, session,
                    surfaced, boundary >>

InitCompletion ==
    InitWith({ << UserMessage(ContentText("hello")) >> }, NsWatching,
             { AgentRunning(model) : model \in Models })

NextCompletion ==
    \/ HandleRequestLock
    \/ \E sendOk \in BOOLEAN : HandleRequestTurn(sendOk)
    \/ HandleRequestReturn
    \/ \E wrap \in BOOLEAN, hasController \in BOOLEAN :
            SessionToSseStream(wrap, hasController)
    \/ PublishScript
    \/ AgentExit
    \/ Pull
    \/ Step(TRUE)
    \/ DropStream
    \/ DropStreamFields
    \/ RunCancelTask
    \/ CompletionRecv

SpecCompletion == InitCompletion /\ [][NextCompletion]_vars

(***************************************************************************)
(* Specification of several callers of AgentSession: the request under     *)
(* study with its outbound stream, and two more callers issuing cancel or  *)
(* handle_request on the same session or on another one.                   *)
(***************************************************************************)
LockEvents == { ToolCallStarted("search"), Completed("", TRUE) }

InitLock ==
    InitWith({ << UserMessage(ContentText("hello")),
                  UserMessage(ContentText("again")) >> }, NsIdle, { NoAgent })

NextLock ==
    \/ HandleRequestLock
    \/ \E sendOk \in BOOLEAN : HandleRequestTurn(sendOk)
    \/ HandleRequestReturn
    \/ \E wrap \in BOOLEAN : SessionToSseStream(wrap, wrap)
    \/ \E e \in LockEvents : Publish(e)
    \/ AgentExit
    \/ Pull
    \/ Step(TRUE)
    \/ DropStream
    \/ DropStreamFields
    \/ RunCancelTask
    \/ \E op \in {"cancel", "handle_request"}, sid \in {"A", "B"} :
            PeerCall("p1", op, sid)
    \/ PeerCall("p2", "cancel", "A")
    \/ \E c \in Callers : PeerLock(c)
    \/ \E c \in Callers, ctrlResult \in ControllerCancelOutcomes :
            PeerCancel(c, ctrlResult)
    \/ \E c \in Callers, sendOk \in BOOLEAN : PeerTurn(c, sendOk)
    \/ \E c \in Callers : PeerReturn(c)
    \/ \E c \in Callers : PeerRequestEnds(c)

SpecLock == InitLock /\ [][NextLock]_vars

(***************************************************************************)
(* Specification of the cancel calls on one session: the request under     *)
(* study with its outbound stream and its disconnect path, and two callers *)
(* of AgentSession::cancel; every cancel of the controller may fail.       *)
(***************************************************************************)
NextCancel ==
    \/ HandleRequestLock
    \/ HandleRequestTurn(TRUE)
    \/ HandleRequestReturn
    \/ \E wrap \in BOOLEAN : SessionToSseStream(wrap, wrap)
    \/ \E e \in LockEvents : Publish(e)
    \/ AgentExit
    \/ Pull
    \/ Step(TRUE)
    \/ DropStream
    \/ DropStreamFields
    \/ RunCancelTask
    \/ RunCancelTaskFails
    \/ \E c \in Callers : PeerCall(c, "cancel", "A")
    \/ \E c \in Callers : PeerLock(c)
    \/ \E c \in Callers, ctrlResult \in ControllerCancelOutcomes :
            PeerCancel(c, ctrlResult)

SpecCancel == Init /\ [][NextCancel]_vars

(***************************************************************************)
(* session.rs: Drop for AgentSession.                                      *)
(***************************************************************************)
\* (mutant) a Drop that leaves the background task running
AbortsOnDrop_None(s) == s.aborts

\* `self.agent_task.abort()`: the calls of abort() after the drop
AbortsOnDrop(s) == s.aborts + 1

\* the AgentSession is dropped (no method call borrows it at that moment)
DropSession ==
    /\ ~session.dropped
    /\ hrPc # "replay"
    /\ \A c \in Callers : peer[c].pc \notin {"start", "locked"}
    /\ session' = [dropped |-> TRUE, aborts |-> AbortsOnDrop(session)]
    /\ UNCHANGED << ephemeral, ctrlLock, inputs, cancelCalls, effective, spawned, trace,
                    hrPc, hrIdx, published, closed, event_rx, sstate, done,
                    accumulated_text, lifecycle, out, nread, handler, endReported,
                    serFailed, ns, peer, lockB,
                    surfaced, boundary >>

\* the aborted task is torn down by the runtime: the agent and its broadcast
\* sender are dropped
AbortTakesEffect ==
    /\ session.aborts > 0
    /\ ~closed
    /\ closed' = TRUE
    /\ UNCHANGED << ephemeral, ctrlLock, inputs, cancelCalls, effective, spawned, trace,
                    hrPc, hrIdx, published, event_rx, sstate, done, accumulated_text,
                    lifecycle, out, nread, handler, endReported, serFailed, ns, peer,
                    lockB, session,
                    surfaced, boundary >>

(***************************************************************************)
(* Specification of the teardown of a session: one request and its stream, *)
(* the computation, and the drop of the AgentSession.  The runtime runs an *)
(* abort it was asked for, and the stream's consumer keeps polling until   *)
(* the stream ends or it drops the stream.                                 *)
(***************************************************************************)
NextTeardown ==
    \/ HandleRequestLock
    \/ \E sendOk \in BOOLEAN : HandleRequestTurn(sendOk)
    \/ HandleRequestReturn
    \/ \E wrap \in BOOLEAN : SessionToSseStream(wrap, wrap)
    \/ DropRequestSession
    \/ \E e \in LockEvents : Publish(e)
    \/ AgentExit
    \/ Pull
    \/ Step(TRUE)
    \/ DropStream
    \/ DropStreamFields
    \/ RunCancelTask
    \/ DropSession
    \/ AbortTakesEffect

SpecTeardown ==
    /\ Init
    /\ [][NextTeardown]_vars
    /\ WF_vars(AbortTakesEffect)
    /\ WF_vars(Pull)
    /\ WF_vars(Step(TRUE))

(***************************************************************************)
(* Specification of a request whose client may disconnect, the cancel call *)
(* of the disconnect path succeeding or failing.                           *)
(***************************************************************************)
NextDisconnect ==
    \/ NextChat
    \/ RunCancelTaskFails

SpecDisconnect == Init /\ [][NextDisconnect]_vars

(***************************************************************************)
(* Specification of handle_chat_completion from its first line: the agent  *)
(* is created for the model of the request, then watched and run.          *)
(***************************************************************************)
\* messages an AgentError may carry
\* the phrase inside a sentence, a full stop after it
MsgGhostMissing ==
    << "A", "g", "e", "n", "t", " ", "'", "g", "h", "o", "s", "t", "'", " ",
       "d", "o", "e", "s", " ", "n", "o", "t", " ", "e", "x", "i", "s", "t",
       "." >>
\* the phrase alone
MsgBarePhrase ==
    << "d", "o", "e", "s", " ", "n", "o", "t", " ", "e", "x", "i", "s", "t" >>
\* the phrase running into a longer word
MsgPhraseInWord ==
    << "x", " ", "d", "o", "e", "s", " ", "n", "o", "t", " ", "e", "x", "i",
       "s", "t", "s" >>
\* another case: not the phrase
MsgCapitalised ==
    << "D", "o", "e", "s", " ", "n", "o", "t", " ", "e", "x", "i", "s", "t" >>
\* two blanks: not the phrase
MsgTwoBlanks ==
    << "d", "o", "e", "s", " ", " ", "n", "o", "t", " ", "e", "x", "i", "s",
       "t" >>
\* no phrase at all
MsgTemperature ==
    << "b", "a", "d", " ", "t", "e", "m", "p", "e", "r", "a", "t", "u", "r",
       "e" >>
MsgNoProvider ==
    << "n", "o", " ", "p", "r", "o", "v", "i", "d", "e", "r" >>

\* what AgentBuilder::create may resolve to
CreateOutcomes ==
    { CreateOk,
      ConfigurationError(MsgGhostMissing),
      ConfigurationError(MsgBarePhrase),
      ConfigurationError(MsgPhraseInWord),
      ConfigurationError(MsgCapitalised),
      ConfigurationError(MsgTwoBlanks),
      ConfigurationError(MsgTemperature),
      OtherAgentError("LlmError", MsgNoProvider),
      OtherAgentError("ExecutionError", MsgBarePhrase) }

InitCreate == InitWith({ << UserMessage(ContentText("hello")) >> }, NsIdle, { NoAgent })

\* agent.run() in the spawned task publishes the next event of its script
RunPublishes == boundary.running /\ PublishScript

\* agent.run() returns: the spawned task ends and the agent is dropped
RunExits == boundary.running /\ AgentExit

NextCreate ==
    \/ \E model \in Models, outcome \in CreateOutcomes : CreateAgent(model, outcome)
    \/ SpawnAgentRun
    \/ RunPublishes
    \/ RunExits
    \/ CompletionRecv

SpecCreate == InitCreate /\ [][NextCreate]_vars

(***************************************************************************)
(* Specification of a request against a computation that publishes only in *)
(* response to the turns it is sent: nothing is published before           *)
(* handle_request has forwarded its first turn.                            *)
(***************************************************************************)
\* the computation publishes an event once it has been sent a turn
PublishReply(e) == inputs # << >> /\ Publish(e)

NextReplay ==
    \/ HandleRequestLock
    \/ \E sendOk \in BOOLEAN : HandleRequestTurn(sendOk)
    \/ HandleRequestReturn
    \/ \E wrap \in BOOLEAN : SessionToSseStream(wrap, wrap)
    \/ \E e \in LockEvents : PublishReply(e)
    \/ Pull
    \/ Step(TRUE)
    \/ DropStream
    \/ DropStreamFields
    \/ RunCancelTask

SpecReplay == InitLock /\ [][NextReplay]_vars

(***************************************************************************)
(* Specification of the two chat-completion pipelines over the event       *)
(* sequences of a computation that reports thoughts, tool calls and its    *)
(* completion (no Error, no pause).                                        *)
(***************************************************************************)
AgreeEvents ==
    { BrainText("T1"), BrainText("T2"),
      BrainResult(ThoughtErr),
      BrainResult(ThoughtOk(AssistantMessage(None))),
      BrainResult(ThoughtOk(UserMessage(ContentText("T2")))),
      ToolCallStarted("search"),
      Completed("", TRUE), Completed("T2", FALSE) }

\* as InitCompletion, for a request that names no agent and one that names one
InitAgree ==
    InitWith({ << UserMessage(ContentText("hello")) >> }, NsWatching,
             { AgentRunning(StrDefault), AgentRunning(ModelCoder) })

NextAgree ==
    \/ HandleRequestLock
    \/ HandleRequestTurn(TRUE)
    \/ HandleRequestReturn
    \/ SessionToSseStream(FALSE, FALSE)
    \/ \E e \in AgreeEvents : Publish(e)
    \/ Pull
    \/ Step(TRUE)
    \/ CompletionRecv

SpecAgree == InitAgree /\ [][NextAgree]_vars

(***************************************************************************)
(* Derived quantities used by the properties.                              *)
(***************************************************************************)
RECURSIVE Count(_, _)
Count(seq, x) ==
    IF Len(seq) = 0 THEN 0
    ELSE (IF Head(seq) = x THEN 1 ELSE 0) + Count(Tail(seq), x)

\* cancels the DisconnectionHandler has triggered (spawned, run or not)
HandlerCancelsTriggered == spawned + Count(cancelCalls, "handler")
\* cancel calls of the disconnect path that have resolved, with either outcome
HandlerCancelsResolved ==
    Count(cancelCalls, "handler") + Count(cancelCalls, "handler-failed")

\* cancels the lifecycle guard has fired
LifecycleCancels == Count(cancelCalls, "lifecycle")

\* indexes (in `published`) of the events the stream has taken from its receiver
ReadIndexes == (event_rx.start + 1) .. event_rx.next

\* the terminal events of the specification: Completed, Error, Paused
SpecTerminal(event) == is_terminal_event(event) \/ event.type = "Error"

(***************************************************************************)
(* C1 - Disconnection inference: a DisconnectionHandler holding a          *)
(* controller that is dropped before its stream reported end-of-stream has *)
(* triggered exactly one cancel; one dropped after end-of-stream (completed*)
(* was set) has triggered none; and none is triggered before the drop.     *)
(***************************************************************************)
C1_DisconnectionInference ==
    (handler.present /\ handler.controller) =>
        /\ handler.completed = endReported
        /\ HandlerCancelsTriggered =
              IF handler.dropped /\ ~endReported THEN 1 ELSE 0

C1_Witness ==
    /\ handler.present /\ handler.controller /\ handler.dropped
    /\ ~endReported
    /\ Len(out) > 0
    /\ Count(cancelCalls, "handler") = 1

(***************************************************************************)
(* C2 - Exactly-once cleanup: for one request, over every interleaving of  *)
(* normal completion, error and abandonment, the cancellation of the       *)
(* controller fires at most once, whichever of the guard and the adapter   *)
(* fires it, and an adapter whose stream completed normally fires none at  *)
(* teardown.                                                               *)
(***************************************************************************)
\* cancel calls the request has caused on the controller, spawned ones included
RequestCancels == HandlerCancelsTriggered + LifecycleCancels

C2_ExactlyOnceCleanup ==
    /\ RequestCancels <= 1
    /\ handler.completed => HandlerCancelsTriggered = 0

\* the client of an ephemeral request went away: the adapter and the guard have
\* each cancelled the controller
C2_CancelledTwice ==
    /\ ephemeral
    /\ handler.present /\ handler.controller /\ ~handler.completed /\ handler.dropped
    /\ sstate = "dropped"
    /\ Count(cancelCalls, "handler") = 1
    /\ LifecycleCancels = 1

(***************************************************************************)
(* C3 - For an ephemeral session the computation is cancelled by the time  *)
(* the request's guard is out of scope, on every exit of the outbound      *)
(* stream: end-of-stream after a terminal event, subscription error,       *)
(* subscription closed, or the stream being dropped.                       *)
(***************************************************************************)
C3_EphemeralCancelledAtScopeExit ==
    ephemeral =>
        /\ sstate \in {"ended", "dropped", "unbuilt"} =>
              (lifecycle = "dropped" /\ LifecycleCancels = 1)
        /\ lifecycle = "dropped" => LifecycleCancels = 1

C3_Witness ==
    /\ ephemeral
    /\ sstate = "ended"
    /\ \E i \in 1..Len(out) : is_terminal_event(published[out[i].src])
    /\ LifecycleCancels = 1

(***************************************************************************)
(* C4 - For a persistent session neither the end of a request nor a client *)
(* disconnect causes a cancel on the controller.                           *)
(***************************************************************************)
C4_PersistentNeverCancelled ==
    ~ephemeral => (cancelCalls = << >> /\ spawned = 0)

(***************************************************************************)
(* C5 - Terminal truncation: once a terminal event (Completed, Error,      *)
(* StatusChanged to Paused) has been delivered to the stream, no outbound  *)
(* item comes from an event delivered after it.                            *)
(***************************************************************************)
C5_TerminalTruncation ==
    \A i \in 1..Len(out) :
        \A k \in ReadIndexes :
            SpecTerminal(published[k]) => out[i].src <= k

(***************************************************************************)
(* C6 - After the stream has observed an event for which is_terminal_event *)
(* holds, it reads no further event and emits no item but the formatted    *)
(* terminal one; the next pull reports end-of-stream.  Also when the       *)
(* terminal event is suppressed or its output fails to serialize.          *)
(***************************************************************************)
C6_EndsAfterTerminal ==
    \A k \in ReadIndexes :
        is_terminal_event(published[k]) =>
            /\ event_rx.next = k
            /\ \A i \in 1..Len(out) : out[i].src <= k
            /\ sstate = "ready" => done
            /\ sstate # "polling"

(***************************************************************************)
(* C7 - An Error event yields exactly one final content chunk              *)
(* "Error: <message>" with a finish marker and is terminal: the stream     *)
(* then ends without any further event; an ephemeral guard is cleaned up.  *)
(***************************************************************************)
C7_ErrorIsTerminal ==
    \A k \in ReadIndexes :
        published[k].type = "Error" =>
            /\ \E i \in 1..Len(out) :
                  /\ out[i].src = k
                  /\ out[i].chunk = create_chunk(Some("Error: " \o published[k].error),
                                                 None, Some(StopSequenceReached))
            /\ event_rx.next = k
            /\ sstate = "ready" => done
            /\ sstate # "polling"
            /\ (ephemeral /\ sstate \in {"ended", "dropped"}) => LifecycleCancels = 1

(***************************************************************************)
(* C9 - In a chat-completion stream closed by a terminal event (Completed  *)
(* or StatusChanged to Paused) the latest assistant text tracked by the    *)
(* formatter is emitted as final content exactly once, at the terminal     *)
(* event and with the finish marker; no event before it yields assistant   *)
(* content.                                                                *)
(***************************************************************************)
C9_FinalTextOnceAtTerminal ==
    \A k \in ReadIndexes :
        is_terminal_event(published[k]) =>
            /\ Cardinality({ i \in 1..Len(out) :
                    /\ out[i].src = k
                    /\ out[i].chunk = create_chunk(Some(accumulated_text), None,
                                                   Some(StopSequenceReached)) }) = 1
            /\ \A i \in 1..Len(out) :
                    (out[i].src < k /\ published[out[i].src].type # "Error") =>
                        out[i].chunk.content = None

(***************************************************************************)
(* C8 - Scenario ToolCallStarted(search), ToolCallCompleted(search,        *)
(* Success), BrainResult(T), Completed(T, true).                           *)
(* As stated: the stream yields three thinking chunks and then the final   *)
(* content chunk T with a finish marker; the non-streaming handler yields  *)
(* one response with message T.                                            *)
(***************************************************************************)
IsThinkingChunk(c) ==
    c.content = None /\ IsSome(c.reasoning_content) /\ c.finish_reason = None

\* the stream has consumed the whole scenario for some T
StreamRanScenario(T) ==
    /\ published = Scenario(T)
    /\ event_rx.start = 0
    /\ event_rx.next = 4

\* the non-streaming loop has consumed the whole scenario for some T
CompletionRanScenario(T) ==
    /\ published = Scenario(T)
    /\ ns.pc = "responded"
    /\ ns.next = 4

C8_ScenarioThreeThinkingChunks ==
    \A T \in Texts :
        /\ StreamRanScenario(T) =>
              /\ Len(out) = 4
              /\ \A i \in 1..3 : IsThinkingChunk(out[i].chunk)
              /\ out[4].chunk = create_chunk(Some(T), None, Some(StopSequenceReached))
        /\ CompletionRanScenario(T) => ns.final_message = T

(***************************************************************************)
(* C8 (amended) - for that scenario the stream yields two thinking chunks, *)
(* "[toolcall: search]" and "[tool succeeded: search]" (BrainResult yields *)
(* no chunk), then the final content chunk T with the finish marker, and   *)
(* ends; the non-streaming handler yields one response with message T.     *)
(***************************************************************************)
C8_ScenarioTwoThinkingChunks ==
    \A T \in Texts :
        /\ StreamRanScenario(T) =>
              /\ Len(out) = 3
              /\ out[1] = [chunk |-> create_chunk(None, Some("[toolcall: search]"), None),
                           src |-> 1]
              /\ out[2] = [chunk |-> create_chunk(None,
                                        Some("[tool succeeded: search]"), None),
                           src |-> 2]
              /\ out[3] = [chunk |-> create_chunk(Some(T), None,
                                                  Some(StopSequenceReached)),
                           src |-> 4]
              /\IsThinkingChunk(out[1].chunk) /\ IsThinkingChunk(out[2].chunk)
              /\ sstate = "ready" => done
              /\ sstate # "polling"
        /\ CompletionRanScenario(T) => ns.final_message = T

C8_Witness ==
    /\ StreamRanScenario("T1")
    /\ CompletionRanScenario("T1")
    /\ sstate = "ended"
    /\ Len(out) = 3

(***************************************************************************)
(* C10 - handle_request forwards exactly the non-empty user text turns of  *)
(* the trace, in order; when a send_user_input fails it returns the error, *)
(* forwards nothing further, and creates neither subscription nor guard.   *)
(***************************************************************************)
IsNonEmptyUserTurn(msg) == msg.role = "user" /\ UserText(msg.content) # ""

\* the texts of the non-empty user turns of tr, in order
UserTurnTexts(tr) ==
    LET turns == SelectSeq(tr, IsNonEmptyUserTurn)
    IN  [i \in 1..Len(turns) |-> UserText(turns[i].content)]

C10_ForwardsUserTurnsInOrder ==
    /\ inputs = UserTurnTexts(SubSeq(trace, 1, hrIdx))
    /\ hrPc = "returned" =>
          /\ hrIdx = Len(trace)
          /\ inputs = UserTurnTexts(trace)
          /\ lifecycle # "none"
          /\ sstate = "none" => (event_rx.open /\ lifecycle = "held")
    /\ hrPc = "failed" =>
          /\ hrIdx < Len(trace)
          /\ IsNonEmptyUserTurn(trace[hrIdx + 1])
          /\ ~event_rx.open
          /\ lifecycle = "none"
          /\ ctrlLock = "free"
    /\ hrPc \in {"start", "replay"} => (~event_rx.open /\ lifecycle = "none")

C10_Witness ==
    /\ trace = << UserMessage(ContentText("hello")), UserMessage(ContentText("")) >>
    /\ hrPc = "returned"
    /\ inputs = << "hello" >>
    /\ lifecycle = "held"

(***************************************************************************)
(* C11 - after handle_request on a persistent session has returned, the    *)
(* exclusive hold on the controller is released: a cancel or               *)
(* handle_request issued on the same session while the first request's     *)
(* outbound stream is still open can acquire the controller, it does not   *)
(* have to wait for that stream to end.                                    *)
(***************************************************************************)
StreamOpen == sstate \in {"ready", "polling"}

\* caller c has issued a call on the session of the request under study and
\* is at lock_owned()
WaitsForSessionLock(c) ==
    peer[c].op # "none" /\ peer[c].sid = "A" /\ peer[c].pc = "start"

C11_LockFreeWhileStreaming ==
    \A c \in Callers :
        (~ephemeral /\ hrPc = "returned" /\ StreamOpen /\ WaitsForSessionLock(c)
            /\ ctrlLock \notin Callers)
        => CanLock(ctrlLock)

(***************************************************************************)
(* C12 - within one AgentSession the uses of the controller by cancel and  *)
(* handle_request are mutually exclusive: the turn submissions of two      *)
(* handle_request calls never interleave, no cancel runs between two       *)
(* submissions of one handle_request, and calls on two different sessions  *)
(* never wait for each other.                                              *)
(***************************************************************************)
\* the callers that are between lock_owned() and the end of their use of the
\* controller of session sid
InCriticalSection(sid) ==
    { c \in Callers : peer[c].sid = sid /\ peer[c].pc = "locked" } \cup
    (IF sid = "A" /\ hrPc = "replay" THEN {"handle_request"} ELSE {})

RequestTexts == { "hello", "again" }

\* no text of one handle_request lies between two texts of the other
NoInterleaving(texts) ==
    \A i, j, k \in 1..Len(texts) :
        (i < j /\ j < k) =>
            ((texts[i] \in RequestTexts) = (texts[k] \in RequestTexts)
                => (texts[j] \in RequestTexts) = (texts[i] \in RequestTexts))

C12_MutualExclusion ==
    /\ \A sid \in {"A", "B"} :
          /\ Cardinality(InCriticalSection(sid)) <= 1
          /\ \A c \in InCriticalSection(sid) : LockHolder(sid) = c
    /\ NoInterleaving(inputs)
    /\ \A c \in Callers :
          (peer[c].op # "none" /\ peer[c].sid = "B" /\ peer[c].pc = "start")
              => CanLock(LockHolder("B"))

\* both handle_request calls have submitted their two turns on session A, the
\* peer while the request under study was not started yet or was already done,
\* and a caller on session B holds its lock while session A's lock is held
C12_Witness ==
    /\ Len(inputs) = 4
    /\ peer["p1"].op = "handle_request" /\ peer["p1"].sid = "A"
    /\ peer["p2"].op = "cancel" /\ peer["p2"].pc = "done"

C12_WitnessOtherSession ==
    /\ peer["p1"].sid = "B" /\ peer["p1"].pc = "locked"
    /\ hrPc = "replay" /\ hrIdx = 1

(***************************************************************************)
(* C13 - cancellation is idempotent.  As stated: of two                    *)
(* AgentSession::cancel calls on one session, or one from the adapter's    *)
(* disconnect path and one explicit, or calls made after the computation   *)
(* has finished, at most one is effective and every call after the first   *)
(* returns Ok.                                                             *)
(***************************************************************************)
\* the callers whose AgentSession::cancel on session A has returned
CancelReturned ==
    { c \in Callers : peer[c].op = "cancel" /\ peer[c].sid = "A" /\ peer[c].pc = "done" }

\* the place of the call of c among the cancel calls that reached the controller
CallIndex(c) == CHOOSE i \in 1..Len(cancelCalls) : cancelCalls[i] = c

C13_WitnessFinished ==
    /\ CancelReturned # {}
    /\ closed
    /\ effective = 0

(***************************************************************************)
(* C14 - ordering.  As stated: a subscription created before publication   *)
(* begins receives all N published events, in emission order, without      *)
(* duplicate or reordering, and the outbound items appear in the order of  *)
(* the events they were formatted from.                                    *)
(***************************************************************************)
RECURSIVE FormatAll(_, _)
\* the outputs a ChatCompletionFormatter with accumulated text acc yields for
\* events, in order
FormatAll(acc, events) ==
    IF Len(events) = 0 THEN << >>
    ELSE LET f == format_event(acc, Head(events))
         IN  (IF IsSome(f.output) THEN << Unwrap(f.output) >> ELSE << >>)
                 \o FormatAll(f.acc, Tail(events))

\* the events the request's receiver has handed to the stream
Received == SubSeq(published, event_rx.start + 1, event_rx.next)

\* the stream ended without having read a terminal event
EndedWithoutTerminal ==
    /\ endReported
    /\ \A i \in 1..Len(Received) : ~is_terminal_event(Received[i])

\* the outbound items are the formatted images of the received events, in order
OutboundInOrder ==
    /\ event_rx.start <= event_rx.next
    /\ event_rx.next <= Len(published)
    /\ [i \in 1..Len(out) |-> out[i].chunk] = FormatAll("", Received)
    /\ \A i \in 1..Len(out) : out[i].src \in ReadIndexes
    /\ \A i, j \in 1..Len(out) : i < j => out[i].src < out[j].src

\* C14 as stated: every published event is received
C14_ReceivesAllInOrder ==
    /\ OutboundInOrder
    /\ (event_rx.start = 0 /\ EndedWithoutTerminal) => event_rx.next = Len(published)

\* C14 amended: the received events are a gap-free run of the published ones,
\* each received once and in emission order; all N are received unless the
\* receiver fell more than the channel capacity behind, and then the stream
\* has ended on the receiver's error
C14_InOrderAtMostOnce ==
    /\ OutboundInOrder
    /\ (event_rx.start = 0 /\ EndedWithoutTerminal)
          => \/ closed /\ event_rx.next = Len(published)
             \/ Len(published) - event_rx.next > ChanCap

C14_Witness ==
    /\ event_rx.start = 0
    /\ EndedWithoutTerminal
    /\ closed
    /\ event_rx.next = MaxEvents
    /\ Len(out) >= 2

(***************************************************************************)
(* C15 - late subscription: the subscription handle_request returns after  *)
(* k events have been published (the resubscribe() AgentSession::watch     *)
(* also uses) observes only events k+1..N; nothing published before it is  *)
(* replayed.                                                               *)
(***************************************************************************)
C15_NoReplay ==
    hrPc = "returned" =>
        /\ event_rx.next >= event_rx.start
        /\ nread = event_rx.next - event_rx.start
        /\ \A i \in 1..Len(out) :
              /\ out[i].src > event_rx.start
              /\ \E acc \in Texts \cup {""} :
                    Some(out[i].chunk) = format_event(acc, published[out[i].src]).output

\* subscribed after two events, the stream has yielded the third
C15_Witness ==
    /\ hrPc = "returned"
    /\ event_rx.start = 2
    /\ event_rx.next = 3
    /\ Len(out) = 1
    /\ out[1].src = 3

(***************************************************************************)
(* C16 - broadcast independence: with two subscriptions on one session     *)
(* (the request's stream and the receiver of the non-streaming loop), a    *)
(* slow or never-reading one never blocks the producer and never makes the *)
(* other miss, duplicate or reorder an event; an overflow is an error for  *)
(* the subscription that overflowed only, and only its consumer ends.      *)
(***************************************************************************)
Lagging(rx) == Len(published) - rx.next > ChanCap

\* the computation still has an event to publish
ProducerHasMore ==
    /\ ~closed
    /\ \E sc \in Scripts :
          Len(published) < Len(sc) /\ SubSeq(sc, 1, Len(published)) = published

C16_BroadcastIndependence ==
    /\ ProducerHasMore => ENABLED PublishScript
    /\ [i \in 1..Len(out) |-> out[i].chunk] = FormatAll("", Received)
    /\ (sstate = "polling" /\ ~Lagging(event_rx))
          => RxNext(event_rx, published, closed).tag # "err"
    /\ (endReported /\ ~done)
          => \/ closed /\ event_rx.next = Len(published)
             \/ Lagging(event_rx)
    /\ (ns.pc = "recv" /\ ~Lagging(ns)) => RxNext(ns, published, closed).tag # "err"
    /\ (ns.pc = "responded" /\ ~Lagging(ns))
          => \/ closed /\ ns.next = Len(published)
             \/ ns.next > 0 /\
                CompletionLoopBody("", StopSequenceReached, published[ns.next]).break

\* the non-streaming receiver never read and overflowed, while the stream,
\* subscribed from the first event, delivered the whole scenario
C16_Witness ==
    /\ ns.next = 0
    /\ Lagging(ns)
    /\ StreamRanScenario("T1")
    /\ event_rx.start = 0
    /\ sstate = "ended"
    /\ done
    /\ Len(out) = 3

(***************************************************************************)
(* C17 - dropping an AgentSession aborts its background task exactly once, *)
(* whatever state the session is in; afterwards the channel closes, every  *)
(* in-flight subscription observes end-of-stream and the outbound stream   *)
(* built on it ends for good.                                              *)
(***************************************************************************)
AbortedExactlyOnce == session.aborts = (IF session.dropped THEN 1 ELSE 0)

C17_DropAbortsAndStreamsEnd ==
    /\ []AbortedExactlyOnce
    /\ session.dropped ~> closed
    /\ session.dropped ~> [](~StreamOpen)

\* a session dropped while the stream of its request was waiting for an event,
\* the stream then ended on the closed channel
C17_Witness ==
    /\ session.dropped
    /\ session.aborts = 1
    /\ closed
    /\ endReported
    /\ ~done
    /\ event_rx.next = Len(published)
    /\ Len(published) > 0

(***************************************************************************)
(* C18 - mid-stream errors in sse_stream_internal: when a formatted output *)
(* fails to serialize, that item alone is skipped and the stream goes on   *)
(* with the next event; when the subscription yields an error the stream   *)
(* ends; in neither case is an error item emitted.                         *)
(***************************************************************************)
\* the step in which the loop body drops an output that failed to serialize
SerializationSkipStep ==
    /\ sstate = "polling"
    /\ RxNext(event_rx, published, closed).tag = "event"
    /\ IsSome(format_event(accumulated_text,
                           RxNext(event_rx, published, closed).event).output)
    /\ event_rx'.next = event_rx.next + 1
    /\ out' = out

\* the step in which rx.next() resolves to Some(Err(..))
SubscriptionErrorStep ==
    /\ sstate = "polling"
    /\ RxNext(event_rx, published, closed).tag = "err"
    /\ sstate' \notin {"polling", "dropping"}

\* every item the stream has yielded is the formatter's output for an event
NoErrorItem ==
    /\ Len(out) <= nread
    /\ \A i \in 1..Len(out) :
          /\ out[i].src \in 1..Len(published)
          /\ \E acc \in Texts \cup {""} :
                Some(out[i].chunk) = format_event(acc, published[out[i].src]).output

C18_MidStreamErrors ==
    /\ []NoErrorItem
    /\ [][SerializationSkipStep =>
            /\ sstate' = "polling"
            /\ event_rx'.open
            /\ lifecycle' = lifecycle
            /\ ~endReported']_vars
    /\ [][SubscriptionErrorStep =>
            /\ sstate' = "ended"
            /\ endReported'
            /\ ~event_rx'.open
            /\ out' = out]_vars

\* the output for the first event failed to serialize, the stream went on and
\* yielded the second
C18_Witness ==
    /\ serFailed
    /\ event_rx.start = 0
    /\ Len(published) >= 2
    /\ IsSome(format_event("", published[1]).output)
    /\ Len(out) >= 1
    /\ out[1].src = 2

\* the receiver overflowed and the stream ended with nothing yielded
C18_WitnessLagged ==
    /\ endReported
    /\ Lagging(event_rx)
    /\ out = << >>
    /\ nread = 0

(***************************************************************************)
(* C19 - the non-streaming handler returns its single response only after  *)
(* it has seen a terminal event (Completed, StatusChanged to Paused, or    *)
(* Error), and the message of the response is the text of the latest       *)
(* successful assistant BrainResult, replaced by the Completed message     *)
(* when that is non-empty; tool events never change it.                    *)
(***************************************************************************)
RECURSIVE LatestAssistantText(_)
\* the text of the last BrainResult of events that carries an assistant text
LatestAssistantText(events) ==
    IF Len(events) = 0 THEN ""
    ELSE LET e == events[Len(events)]
         IN  IF e.type = "BrainResult" /\ IsSome(AssistantTextOf(e.thought))
             THEN Unwrap(AssistantTextOf(e.thought))
             ELSE LatestAssistantText(SubSeq(events, 1, Len(events) - 1))

\* the body the claim prescribes for a loop that has consumed events
ExpectedBody(events) ==
    LET last == events[Len(events)]
    IN  IF Len(events) > 0 /\ last.type = "Completed" /\ last.message # ""
        THEN last.message
        ELSE LatestAssistantText(events)

NsConsumed == SubSeq(published, 1, ns.next)

C19_RespondsAfterTerminal ==
    ns.pc = "responded" =>
        /\ ns.next > 0
        /\ SpecTerminal(published[ns.next])
        /\ ns.final_message = ExpectedBody(NsConsumed)

(***************************************************************************)
(* C20 - tool invocation events are rendered as reasoning fragments only:  *)
(* the chunk for ToolCallStarted / ToolCallCompleted carries the reasoning *)
(* text '[toolcall: X]', '[tool succeeded: X]', '[tool failed: X - <first  *)
(* line of the error>]' or '[tool denied: X]', no content and no finish    *)
(* marker, and formatting it leaves the accumulated text unchanged.        *)
(***************************************************************************)
IsToolEvent(event) == event.type \in {"ToolCallStarted", "ToolCallCompleted"}

\* the reasoning text the claim prescribes for the tool events of the scripts
ExpectedReasoning(event) ==
    CASE event = ToolCallStarted("search") -> "[toolcall: search]"
      [] event = ToolCallStarted("shell") -> "[toolcall: shell]"
      [] event = ToolCallCompleted("search", ToolSuccess) -> "[tool succeeded: search]"
      [] event = ToolCallCompleted("search", ToolDenied) -> "[tool denied: search]"
      [] event = ToolCallCompleted("search", ToolError(<< "boom", "at line 2" >>))
            -> "[tool failed: search - boom]"
      [] event = ToolCallCompleted("shell", ToolError(<< >>))
            -> "[tool failed: shell - ]"

\* the stream reads a tool event in this step
ToolEventStep ==
    /\ sstate = "polling"
    /\ RxNext(event_rx, published, closed).tag = "event"
    /\ IsToolEvent(RxNext(event_rx, published, closed).event)
    /\ event_rx'.next = event_rx.next + 1

ToolChunksAreReasoningOnly ==
    \A i \in 1..Len(out) :
        IsToolEvent(published[out[i].src]) =>
            /\ out[i].chunk.reasoning_content =
                  Some(ExpectedReasoning(published[out[i].src]))
            /\ out[i].chunk.content = None
            /\ out[i].chunk.finish_reason = None

C20_ToolEventsAsReasoning ==
    /\ []ToolChunksAreReasoningOnly
    /\ [][ToolEventStep =>
            /\ accumulated_text' = accumulated_text
            /\ done' = done
            /\ Len(out') = Len(out) + 1
            /\ out'[Len(out')].src = event_rx.next + 1]_vars

\* a failed tool call with a two-line error has been rendered
C20_Witness ==
    /\ Len(out) = 2
    /\ published[out[2].src] =
          ToolCallCompleted("search", ToolError(<< "boom", "at line 2" >>))
    /\ out[2].chunk.reasoning_content = Some("[tool failed: search - boom]")
    /\ accumulated_text = ""

\* a denied tool call has been rendered after a text was accumulated: the
\* accumulated text is still the one of the BrainResult
C20_WitnessTextKept ==
    /\ Len(out) = 2
    /\ published[out[2].src] = ToolCallCompleted("search", ToolDenied)
    /\ out[2].chunk.reasoning_content = Some("[tool denied: search]")
    /\ accumulated_text = "T1"

(***************************************************************************)
(* C21 - the cancellation of the disconnect path is fire-and-forget:       *)
(* dropping a DisconnectionHandler only spawns the cancel call and does    *)
(* not wait for it; a failing cancel call is never reported to the client  *)
(* and never becomes a stream item or an error state of the stream.        *)
(***************************************************************************)
\* Drop for DisconnectionHandler runs in this step
HandlerDropStep == handler.present /\ ~handler.dropped /\ handler'.dropped

\* a cancel task spawned by the drop resolves in this step
CancelTaskStep == spawned' < spawned

C21_FireAndForget ==
    /\ [](~surfaced)
    /\ [](HandlerCancelsResolved > 0 =>
            (handler.dropped /\ sstate \in {"dropping", "dropped"}))
    /\ [][HandlerDropStep =>
            /\ sstate' = "dropping"
            /\ lifecycle' = lifecycle
            /\ ctrlLock' = ctrlLock
            /\ spawned' = spawned + (IF DropSpawnsCancel(handler) THEN 1 ELSE 0)
            /\ Count(cancelCalls', "handler") = Count(cancelCalls, "handler")
            /\ Count(cancelCalls', "handler-failed") =
                  Count(cancelCalls, "handler-failed")
            /\ out' = out]_vars
    /\ [][CancelTaskStep =>
            /\ out' = out
            /\ sstate' = sstate
            /\ handler' = handler
            /\ endReported' = endReported
            /\ event_rx' = event_rx]_vars

\* the client went away after one item, the cancel call failed, nothing of it
\* is visible to the client
C21_Witness ==
    /\ handler.dropped
    /\ sstate = "dropped"
    /\ Count(cancelCalls, "handler-failed") = 1
    /\ spawned = 0
    /\ Len(out) = 1
    /\ ~surfaced

\* the spawned cancel call resolved before the fields of the handler, the
\* lifecycle guard among them, were dropped
C21_WitnessEarly ==
    /\ sstate = "dropping"
    /\ HandlerCancelsResolved = 1
    /\ lifecycle = "held"
    /\ ctrlLock = "lifecycle"

\* the drop has returned while the cancel call it spawned has not run yet
C21_WitnessPending ==
    /\ handler.dropped
    /\ spawned = 1
    /\ HandlerCancelsResolved = 0

(***************************************************************************)
(* C22 - create_agent_from_model: a ConfigurationError whose message       *)
(* contains 'does not exist' becomes not-found, any other                  *)
(* ConfigurationError invalid-request, every other error internal-error;   *)
(* the models '' and 'default' select the default agent (no config name);  *)
(* the error is returned before the agent task is spawned and before any   *)
(* event is read.                                                          *)
(***************************************************************************)
\* the boundary error the claim prescribes for the outcomes of CreateOutcomes
ExpectedErrorKind(outcome) ==
    CASE outcome = ConfigurationError(MsgGhostMissing) -> "not_found"
      [] outcome = ConfigurationError(MsgBarePhrase) -> "not_found"
      [] outcome = ConfigurationError(MsgPhraseInWord) -> "not_found"
      [] outcome = ConfigurationError(MsgCapitalised) -> "invalid_request"
      [] outcome = ConfigurationError(MsgTwoBlanks) -> "invalid_request"
      [] outcome = ConfigurationError(MsgTemperature) -> "invalid_request"
      [] outcome = OtherAgentError("LlmError", MsgNoProvider) -> "internal_error"
      [] outcome = OtherAgentError("ExecutionError", MsgBarePhrase)
            -> "internal_error"

ExpectedConfig(model) ==
    CASE model = << >> -> None
      [] model = StrDefault -> None
      [] model = ModelCoder -> Some(ModelCoder)
      [] model = ModelGhost -> Some(ModelGhost)

C22_CreateErrorMapping ==
    /\ boundary.called =>
          /\ boundary.config = ExpectedConfig(boundary.model)
          /\ IsSome(boundary.error) = ~boundary.outcome.ok
          /\ IsSome(boundary.error) =>
                /\ Unwrap(boundary.error).kind = ExpectedErrorKind(boundary.outcome)
                /\ ns.pc = "rejected"
                /\ ~boundary.running
                /\ published = << >>
                /\ ns.next = 0
                /\ sstate = "none"
    /\ (boundary.running \/ ns.pc \in {"watching", "recv", "responded"})
          => (boundary.called /\ ~IsSome(boundary.error))

C22_Witness ==
    /\ boundary.called
    /\ boundary.model = ModelGhost
    /\ boundary.config = Some(ModelGhost)
    /\ boundary.outcome = ConfigurationError(MsgPhraseInWord)
    /\ boundary.error =
          Some([kind |-> "not_found",
                message |-> << "A", "g", "e", "n", "t", " ", "'", "g", "h", "o",
                            "s", "t", "'", " ", "n", "o", "t", " ", "f", "o",
                            "u", "n", "d" >>])
    /\ ns.pc = "rejected"

(***************************************************************************)
(* C23 - no event is lost between turn replay and subscription: every      *)
(* event the computation publishes after handle_request has forwarded a    *)
(* turn is delivered to the subscription this handle_request returns (here *)
(* every published event is such an event, so the subscription has none    *)
(* behind it when it is created).                                          *)
(***************************************************************************)
C23_NoEventLostAfterReplay ==
    hrPc = "returned" => event_rx.start = 0

(***************************************************************************)
(* C24 - the lifecycle guard given to sse_stream_internal is held for as   *)
(* long as the outbound stream can still yield an item, and is released on *)
(* every way the stream ends: the pull that reports end-of-stream after a  *)
(* terminal event, a subscription error, the close of the subscription, or *)
(* the drop of the stream; once it is released no pull returns an item.    *)
(***************************************************************************)
C24_LifecycleSpansStream ==
    /\ [](StreamOpen => lifecycle = "held")
    /\ [](sstate \in {"ended", "dropped", "unbuilt"} => lifecycle = "dropped")
    /\ [](lifecycle = "dropped" => ~StreamOpen)
    /\ [][lifecycle = "dropped" => (out' = out /\ lifecycle' = "dropped")]_vars
    /\ [][(lifecycle = "held" /\ lifecycle' = "dropped") =>
            /\ sstate' \in {"ended", "dropped", "unbuilt"}
            /\ out' = out]_vars

\* the terminal item was yielded with the guard still held, ...
C24_WitnessHeldAfterTerminalItem ==
    /\ sstate = "ready"
    /\ done
    /\ Len(out) >= 1
    /\ lifecycle = "held"

\* ... and the next pull reported end-of-stream and released it
C24_Witness ==
    /\ sstate = "ended"
    /\ done
    /\ Len(out) >= 1
    /\ is_terminal_event(published[out[Len(out)].src])
    /\ lifecycle = "dropped"

\* released by a subscription error, by the close of the channel
C24_WitnessError == endReported /\ ~done /\ Lagging(event_rx) /\ lifecycle = "dropped"
C24_WitnessClosed ==
    /\ endReported /\ ~done /\ closed /\ event_rx.next = Len(published)
    /\ lifecycle = "dropped"

(***************************************************************************)
(* C25 - streaming and non-streaming agree on the final text: for an event *)
(* sequence without Error and without a pause before its first Completed,  *)
(* the content of the chunk the ChatCompletionFormatter yields at          *)
(* Completed equals the message of the response the non-streaming handler  *)
(* returns for the same sequence.                                          *)
(***************************************************************************)
\* item i of the stream is the chunk for a Completed event, and the
\* non-streaming loop has ended on the same event after the same sequence
BothCompletedAt(i) ==
    /\ event_rx.start = 0
    /\ published[out[i].src].type = "Completed"
    /\ ns.pc = "responded"
    /\ ns.next = out[i].src

C25_FinalTextAgrees ==
    \A i \in 1..Len(out) :
        BothCompletedAt(i) => out[i].chunk.content = Some(ns.final_message)

\* T1 collected from a BrainResult, a failed thought after it, Completed with an
\* empty message: both pipelines answer T1
C25_Witness ==
    /\ published = << BrainText("T1"), BrainResult(ThoughtErr), Completed("", TRUE) >>
    /\ Len(out) = 1
    /\ BothCompletedAt(1)
    /\ ns.final_message = "T1"

\* a non-empty Completed message replaces the collected text in both
C25_WitnessReplaced ==
    /\ published = << BrainText("T1"), Completed("T2", FALSE) >>
    /\ Len(out) = 1
    /\ BothCompletedAt(1)
    /\ ns.final_message = "T2"

(***************************************************************************)
(* C26 - the accumulated text of ChatCompletionFormatter is the text of    *)
(* the most recent BrainResult whose thought was a successful assistant    *)
(* text message, the empty string if there was none: a BrainResult emits   *)
(* no chunk, a failed or non-text thought leaves the text unchanged, a     *)
(* Completed event with an empty message emits the accumulated text and a  *)
(* non-empty Completed message replaces it.                                *)
(***************************************************************************)
RECURSIVE LatestThoughtText(_)
\* the text of the last successful assistant text thought of events, for the
\* thoughts of AgreeEvents
LatestThoughtText(events) ==
    IF Len(events) = 0 THEN ""
    ELSE IF events[Len(events)] = BrainText("T1") THEN "T1"
    ELSE IF events[Len(events)] = BrainText("T2") THEN "T2"
    ELSE LatestThoughtText(SubSeq(events, 1, Len(events) - 1))

NoCompletedIn(events) == \A i \in 1..Len(events) : events[i].type # "Completed"

\* the events the stream had read before the one of index src
ReadBefore(src) == SubSeq(published, event_rx.start + 1, src - 1)

\* C26 as stated: the accumulated text is at all times the text of the most
\* recent successful assistant text thought
C26_AlwaysLatestThought ==
    sstate # "none" => accumulated_text = LatestThoughtText(Received)

\* C26 amended: the accumulated text is the text of the most recent successful
\* assistant text thought until a Completed event is formatted; a BrainResult
\* emits no chunk; the chunk for Completed carries the Completed message when
\* that is non-empty and the accumulated text otherwise, and the accumulated
\* text is from then on what that chunk carried
C26_AccumulatedTextInvariant ==
    sstate # "none" =>
        /\ NoCompletedIn(Received) => accumulated_text = LatestThoughtText(Received)
        /\ \A i \in 1..Len(out) :
              LET e == published[out[i].src]
              IN  /\ e.type # "BrainResult"
                  /\ (e.type = "Completed" /\ NoCompletedIn(ReadBefore(out[i].src))) =>
                        /\ out[i].chunk.content =
                              Some(IF e.message = ""
                                   THEN LatestThoughtText(ReadBefore(out[i].src))
                                   ELSE e.message)
                        /\ out[i].src = event_rx.next =>
                              Some(accumulated_text) = out[i].chunk.content

\* T1 accumulated, then a failed thought and a non-text thought: no chunk, the
\* text is still T1
C26_Witness ==
    /\ published = << BrainText("T1"), BrainResult(ThoughtErr),
                      BrainResult(ThoughtOk(AssistantMessage(None))) >>
    /\ event_rx.start = 0
    /\ event_rx.next = 3
    /\ out = << >>
    /\ accumulated_text = "T1"

\* Completed with an empty message emitted the accumulated text
C26_WitnessCompleted ==
    /\ published = << BrainText("T1"), BrainText("T2"), Completed("", TRUE) >>
    /\ event_rx.start = 0
    /\ Len(out) = 1
    /\ out[1].chunk.content = Some("T2")

====
